---- MODULE Spec2Model ----
(***************************************************************************)
(* State machine of the REST backend: the connection adapter               *)
(* (db/connection.js), the get-or-create helper, the bulk import handler   *)
(* (routes/upload) and the CRUD handlers (routes/*.js).                    *)
(*                                                                         *)
(* One step of a request is the code between two awaits.  A statement is a *)
(* sequence of lexical units (keywords, names, the generic marker "?");    *)
(* offsets are counted in units.  JavaScript values are tagged records so  *)
(* that "undefined", a row, a row list and a result header stay apart.     *)
(* Identifiers are positive; 0 stands for an absent/undefined field.       *)
(***************************************************************************)
EXTENDS Integers, Sequences, FiniteSets, TLC

\* ---------------------------------------------------------------- bounds
MaxRows == 2        \* data rows of an uploaded sheet
MaxFaults == 2      \* statements the database may reject in one behaviour
MaxCalls == 2       \* getOrCreate calls of a direct caller, one after another
MaxLen == 3         \* units of a statement handed to an adapter function directly
MaxParams == 2      \* values of a parameter list handed to format directly

Reqs == {1, 2, 3}
Conns == {1, 2}
\* the values of DB_TYPE: the two supported ones, another name, no value at all
DbTypes == {"mysql", "postgres", "other", "unset"}

Cargos == {1}
Contactos == {1}
Nits == {1, 2}
Programas == {1}
Estudiantes == {1, 2}
Fechas == {1, 2}
Infos == {1, 2}

EntityTables ==
  {"p_cargo_contacto", "p_contacto", "p_empresa", "p_programa", "p_estudiante"}
Tables == EntityTables \cup {"p_practica", "contacto"}

\* ------------------------------------------------------- JavaScript values
Undefined == [t |-> "undefined"]
Val(n) == [t |-> "val", v |-> n]
Obj(o) == [t |-> "obj", o |-> o]
Arr(a) == [t |-> "array", a |-> a]
RowList(s) == [t |-> "rows", rows |-> s]
Header(n) == [t |-> "header", insertId |-> n]

\* ------------------------------------------------------------ statements
Marker == [k |-> "?"]
Kw(s) == [k |-> "kw", s |-> s]
Lit(v) == [k |-> "lit", v |-> v]            \* an escaped literal value
SetList(o) == [k |-> "set", o |-> o]        \* `col` = value, ... of an object
Numbered(n) == [k |-> "$n", n |-> n]        \* $1, $2, ...
DollarText(v) == [k |-> "$text", v |-> v]   \* "$" followed by String(v)

SelectBy(table, field) ==
  <<Kw("SELECT * FROM"), Kw(table), Kw("WHERE"), Kw(field), Kw("="), Marker>>
InsertSet(table) == <<Kw("INSERT INTO"), Kw(table), Kw("SET"), Marker>>
SelectPractica ==
  <<Kw("SELECT * FROM"), Kw("p_practica"), Kw("WHERE"),
    Kw("id_estudiante"), Kw("="), Marker, Kw("AND"),
    Kw("id_empresa"), Kw("="), Marker, Kw("AND"),
    Kw("id_programa"), Kw("="), Marker>>
UpdatePractica ==
  <<Kw("UPDATE"), Kw("p_practica"), Kw("SET"), Marker,
    Kw("WHERE"), Kw("id_practica"), Kw("="), Marker>>
SelectAll(table) == <<Kw("SELECT * FROM"), Kw(table)>>
InsertValues(table) == <<Kw("INSERT INTO"), Kw(table), Kw("VALUES"), Marker>>
UpdateBy(table, field) ==
  <<Kw("UPDATE"), Kw(table), Kw("SET ="), Marker, Kw("WHERE"), Kw(field), Kw("="), Marker>>
DeleteBy(table, field) ==
  <<Kw("DELETE FROM"), Kw(table), Kw("WHERE"), Kw(field), Kw("="), Marker>>
Control(word) == <<Kw(word)>>

\* sql.replace(/\?/g, () => `$${++index}`)
RECURSIVE ConvertFrom(_, _)
ConvertFrom(sql, index) ==
  IF Len(sql) = 0 THEN <<>>
  ELSE IF Head(sql).k = "?"
       THEN <<Numbered(index + 1)>> \o ConvertFrom(Tail(sql), index + 1)
       ELSE <<Head(sql)>> \o ConvertFrom(Tail(sql), index)

\* variant: the counter written as index++, so that numbering starts at $0
ConvertPostIncrement(sql) == ConvertFrom(sql, -1)

convertQuestionMarksToDollarSigns(sql) == ConvertFrom(sql, 0)

\* params[i - 1] of a JavaScript value: an array element, else undefined
\* (i is a 0-based offset, so the element is the (i-1)+1 = i-th of the sequence)
ParamAt(params, i) ==
  IF params.t = "array" /\ i >= 1 /\ i <= Len(params.a) THEN params.a[i] ELSE Undefined

\* the postgres branch of format: the callback's second argument is the
\* offset of the match, sql.replace(/\?/g, (_, i) => `$${params[i - 1]}`)
PostgresFormat(sql, params) ==
  [p \in 1..Len(sql) |->
     IF sql[p].k = "?" THEN DollarText(ParamAt(params, p - 1)) ELSE sql[p]]

\* the mysql driver's escape of one value
Escape(v) == IF v.t = "obj" THEN SetList(v.o) ELSE Lit(v)

RECURSIVE SqlFormat(_, _, _)
SqlFormat(sql, values, used) ==
  IF Len(sql) = 0 THEN <<>>
  ELSE IF Head(sql).k = "?" /\ used < Len(values)
       THEN <<Escape(values[used + 1])>> \o SqlFormat(Tail(sql), values, used + 1)
       ELSE <<Head(sql)>> \o SqlFormat(Tail(sql), values, used)

\* the mysql branch of format: connection.format(sql, params) of the driver
MysqlFormat(sql, params) ==
  IF params.t = "undefined" THEN sql
  ELSE SqlFormat(sql, IF params.t = "array" THEN params.a ELSE <<params>>, 0)



\* ------------------------------------------------------------------ state
VARIABLES
  dbType,     \* process.env.DB_TYPE, fixed for the life of the process
  db,         \* committed contents of every table
  conn,       \* per pooled connection: owner, open transaction, its pending writes
  req,        \* per request slot: control position, locals and observations
  workload,   \* per request slot: the requests its client still sends
  faults,     \* statements the database may still reject
  call        \* the adapter function called directly, its arguments and result

vars == <<dbType, db, conn, req, workload, faults, call>>

\* handle.format of the adapter on the active backend
Format(sql, params) ==
  IF dbType = "mysql" THEN MysqlFormat(sql, params) ELSE PostgresFormat(sql, params)

\* --------------------------------------------------------------- database
RECURSIVE SortByPk(_)
SortByPk(S) ==
  IF S = {} THEN <<>>
  ELSE LET m == CHOOSE x \in S : \A y \in S : x.pk <= y.pk
       IN <<m>> \o SortByPk(S \ {m})

ApplyOp(d, w) ==
  CASE w.op = "ins" -> [d EXCEPT ![w.t] = @ \cup {w.row}]
    [] w.op = "upd" -> [d EXCEPT ![w.t] = {IF x.pk = w.pk THEN w.row ELSE x : x \in @}]
    [] w.op = "del" -> [d EXCEPT ![w.t] = {x \in @ : x.pk # w.pk}]

RECURSIVE ApplyAll(_, _)
ApplyAll(d, ops) ==
  IF Len(ops) = 0 THEN d ELSE ApplyAll(ApplyOp(d, Head(ops)), Tail(ops))

\* variant: a statement also reads what the other connections have written
\* and not yet committed
ViewOfAll(c) == ApplyAll(ApplyAll(db, conn[1].pend), conn[2].pend)

\* what a statement on connection c reads: its own pending writes included
View(c) == IF conn[c].tx THEN ApplyAll(db, conn[c].pend) ELSE db

PksInUse(t) ==
  {x.pk : x \in db[t]} \cup
  UNION {{conn[c].pend[j].row.pk : j \in {n \in 1..Len(conn[c].pend) :
                                         conn[c].pend[n].op = "ins" /\ conn[c].pend[n].t = t}}
         : c \in Conns}

\* the backend-assigned identifier of the next inserted row of table t
NextPk(t) == IF PksInUse(t) = {} THEN 1
             ELSE 1 + (CHOOSE m \in PksInUse(t) : \A n \in PksInUse(t) : n <= m)

\* the server's view of the text: the mysql driver substitutes the values
\* itself, postgres binds $n to the n-th value
ServerText(sql, params) ==
  IF dbType = "mysql" THEN MysqlFormat(sql, params)
  ELSE [p \in 1..Len(sql) |->
          IF sql[p].k = "$n"
          THEN IF params.t = "array" /\ sql[p].n <= Len(params.a)
               THEN Lit(params.a[sql[p].n]) ELSE [k |-> "unbound"]
          ELSE sql[p]]

Scalar(tok) == tok.k = "lit" /\ tok.v.t \in {"val", "undefined"}
SyntaxError == [c |-> "syntaxError"]

Parse(toks) ==
  LET n == Len(toks)
      w == toks[1].s
  IN
  CASE n = 1 -> [c |-> w]
    [] w = "SELECT * FROM" /\ n = 2 -> [c |-> "selectAll", t |-> toks[2].s]
    [] w = "SELECT * FROM" /\ n = 6 ->
         IF Scalar(toks[6])
         THEN [c |-> "selectBy", t |-> toks[2].s, f |-> toks[4].s, v |-> toks[6].v]
         ELSE SyntaxError
    [] w = "SELECT * FROM" /\ n = 14 ->
         IF Scalar(toks[6]) /\ Scalar(toks[10]) /\ Scalar(toks[14])
         THEN [c |-> "selectPractica", est |-> toks[6].v, emp |-> toks[10].v,
               prog |-> toks[14].v]
         ELSE SyntaxError
    [] w = "INSERT INTO" /\ toks[3].s = "SET" ->
         \* INSERT ... SET is a mysql form; it takes an assignment list
         IF dbType = "mysql" /\ toks[4].k = "set"
         THEN [c |-> "insert", t |-> toks[2].s, o |-> toks[4].o]
         ELSE SyntaxError
    [] w = "INSERT INTO" /\ toks[3].s = "VALUES" ->
         IF Scalar(toks[4]) /\ toks[4].v.t = "val"
         THEN [c |-> "insert", t |-> toks[2].s, o |-> [info |-> toks[4].v.v]]
         ELSE SyntaxError
    [] w = "UPDATE" /\ toks[3].s = "SET" ->
         IF dbType = "mysql" /\ toks[4].k = "set" /\ Scalar(toks[8])
         THEN [c |-> "update", t |-> toks[2].s, o |-> toks[4].o, v |-> toks[8].v]
         ELSE SyntaxError
    [] w = "UPDATE" /\ toks[3].s = "SET =" ->
         IF Scalar(toks[4]) /\ toks[4].v.t = "val" /\ Scalar(toks[8])
         THEN [c |-> "update", t |-> toks[2].s, o |-> [info |-> toks[4].v.v],
               v |-> toks[8].v]
         ELSE SyntaxError
    [] w = "DELETE FROM" ->
         IF Scalar(toks[6]) THEN [c |-> "delete", t |-> toks[2].s, v |-> toks[6].v]
         ELSE SyntaxError
    [] OTHER -> SyntaxError

\* the column a WHERE clause names: the primary key, or the table's unique key
Column(x, f) == IF f \in {"id", "id_practica"} THEN x.pk ELSE x.key

\* NULL equals nothing
Matches(x, f, v) == v.t = "val" /\ Column(x, f) = v.v

\* what the driver's client.query resolves to
DriverRows(rows) ==
  IF dbType = "mysql" THEN [shape |-> "mysql", first |-> RowList(rows)]
  ELSE [shape |-> "pg", rows |-> rows]
DriverDone(insertId) ==
  IF dbType = "mysql" THEN [shape |-> "mysql", first |-> Header(insertId)]
  ELSE [shape |-> "pg", rows |-> <<>>]

NoEffect == [kind |-> "none"]
Writes(ws) == [kind |-> "write", ws |-> ws]

\* one parsed statement run against what connection c sees
Exec(c, cmd) ==
  LET view == View(c) IN
  CASE cmd.c \in {"BEGIN", "COMMIT", "ROLLBACK"} ->
         [result |-> DriverDone(0), eff |-> [kind |-> cmd.c]]
    [] cmd.c = "selectAll" ->
         [result |-> DriverRows(SortByPk(view[cmd.t])), eff |-> NoEffect]
    [] cmd.c = "selectBy" ->
         [result |-> DriverRows(SortByPk({x \in view[cmd.t] : Matches(x, cmd.f, cmd.v)})),
          eff |-> NoEffect]
    [] cmd.c = "selectPractica" ->
         [result |-> DriverRows(SortByPk(
              {x \in view["p_practica"] :
                 /\ cmd.est.t = "val" /\ x.est = cmd.est.v
                 /\ cmd.emp.t = "val" /\ x.emp = cmd.emp.v
                 /\ cmd.prog.t = "val" /\ x.prog = cmd.prog.v})),
          eff |-> NoEffect]
    [] cmd.c = "insert" ->
         [result |-> DriverDone(NextPk(cmd.t)),
          eff |-> Writes(<<[op |-> "ins", t |-> cmd.t,
                           row |-> [pk |-> NextPk(cmd.t)] @@ cmd.o]>>)]
    [] cmd.c = "update" ->
         [result |-> DriverDone(0),
          eff |-> Writes([j \in 1..Len(SortByPk({x \in view[cmd.t] : Matches(x, "id", cmd.v)})) |->
                    [op |-> "upd", t |-> cmd.t, pk |-> cmd.v.v,
                     row |-> [pk |-> cmd.v.v] @@ cmd.o]])]
    [] cmd.c = "delete" ->
         [result |-> DriverDone(0),
          eff |-> Writes([j \in 1..Len(SortByPk({x \in view[cmd.t] : Matches(x, "id", cmd.v)})) |->
                    [op |-> "del", t |-> cmd.t, pk |-> cmd.v.v]])]

\* client.query(sql, params): rejects on a statement the server cannot parse
\* or on a failure of the statement (fail), else resolves to the result
ClientQuery(c, sql, params, fail) ==
  LET cmd == Parse(ServerText(sql, params)) IN
  IF fail \/ cmd.c = "syntaxError"
  THEN [err |-> TRUE, result |-> DriverDone(0), eff |-> NoEffect]
  ELSE [err |-> FALSE] @@ Exec(c, cmd)

\* result.rows ? result.rows : result[0]
WrapperReturn(result) ==
  IF result.shape = "pg" THEN RowList(result.rows) ELSE result.first

queryWrapper(c, sql, params, fail) ==
  LET sql2 == IF dbType = "postgres" THEN convertQuestionMarksToDollarSigns(sql) ELSE sql
      r == ClientQuery(c, sql2, params, fail)
  IN [err |-> r.err,
      value |-> IF r.err THEN Undefined ELSE WrapperReturn(r.result),
      eff |-> r.eff]

\* committed tables after a statement's effect on connection c
DbAfter(c, eff) ==
  CASE eff.kind = "write" /\ ~conn[c].tx -> ApplyAll(db, eff.ws)
    [] eff.kind = "COMMIT" -> ApplyAll(db, conn[c].pend)
    \* mysql: BEGIN inside a transaction commits it first
    [] eff.kind = "BEGIN" /\ conn[c].tx /\ dbType = "mysql" -> ApplyAll(db, conn[c].pend)
    [] OTHER -> db

\* connection c after a statement's effect
ConnAfter(c, eff) ==
  CASE eff.kind = "write" /\ conn[c].tx -> [conn[c] EXCEPT !.pend = @ \o eff.ws]
    [] eff.kind \in {"COMMIT", "ROLLBACK"} -> [conn[c] EXCEPT !.tx = FALSE, !.pend = <<>>]
    [] eff.kind = "BEGIN" ->
         IF conn[c].tx /\ dbType # "mysql" THEN conn[c]
         ELSE [conn[c] EXCEPT !.tx = TRUE, !.pend = <<>>]
    [] OTHER -> conn[c]


\* ------------------------------------------------------------- getOrCreate
\* the cell of a sheet row that was left empty: the property is undefined
Blank == 0
\* the JavaScript value of a field
JsId(n) == IF n = Blank THEN Undefined ELSE Val(n)

\* a candidate record: its unique-key value, its reference, its other
\* fields (info), and the id attached after an insert (0: not attached)
Candidate(key, ref, info) == [key |-> key, ref |-> ref, info |-> info, id |-> 0]
Columns(data) == [key |-> data.key, ref |-> data.ref, info |-> data.info]

\* return rows[0]
Existing(row) ==
  [pk |-> row.pk, key |-> row.key, ref |-> row.ref, info |-> row.info, id |-> 0]
\* variant: the spread written as { ...rows2[0], ...data }
MergeCandidateWins(data, row) == data @@ row

\* return { ...data, ...rows2[0] }: the fields of both, the row's value where
\* both have the field
Merge(data, row) == row @@ data
\* return data
Fallback(data) ==
  [pk |-> 0, key |-> data.key, ref |-> data.ref, info |-> data.info, id |-> data.id]

\* variant: the test written as rows.length > 1
LengthAboveOne(v) == v.t = "rows" /\ Len(v.rows) > 1

\* rows.length > 0
LengthPositive(v) == v.t = "rows" /\ Len(v.rows) > 0

\* result.insertId || result[0]?.id
InsertedId(v) ==
  IF v.t = "header" /\ v.insertId # 0 THEN v.insertId
  ELSE 0   \* a header has no element 0; a row has no column "id"

\* --------------------------------------------------------------- requests
\* no direct call of an adapter function has been made
NoCall == [fn |-> "none", sql |-> <<>>, params |-> Undefined,
           data |-> Candidate(0, 0, 0), row |-> Columns(Candidate(0, 0, 0)),
           out |-> <<>>]

Rows == [cargo : Cargos, contacto : Contactos, nit : Nits, programa : Programas,
         estudiante : Estudiantes, info : {1}]
Files == UNION {[1..n -> Rows] : n \in 0..MaxRows}

CallTables == {"p_empresa"}
UniqueField(table) ==
  CASE table = "p_empresa" -> "nit"
    [] table \in {"p_contacto", "p_estudiante"} -> "email"
    [] OTHER -> "nombre"

NoRequest == [kind |-> "none", att |-> "ok", file |-> <<>>, fecha |-> 0,
              key |-> 0, info |-> 0]
UploadRequests ==
  {[kind |-> "upload", att |-> "ok", file |-> f, fecha |-> d, key |-> 0, info |-> 0] :
     f \in Files, d \in Fechas} \cup
  {[kind |-> "upload", att |-> a, file |-> <<>>, fecha |-> 0, key |-> 0, info |-> 0] :
     a \in {"nofile", "nosheet"}}
CrudRequests ==
  {[kind |-> k, att |-> "ok", file |-> <<>>, fecha |-> 0, key |-> i, info |-> n] :
     k \in {"getAll", "getOne", "post", "put", "delete"}, i \in {1, 2}, n \in {1}}
CallerRequests ==
  {[kind |-> "caller", att |-> "ok", file |-> <<>>, fecha |-> 0, key |-> 0, info |-> 0]}
Requests == UploadRequests \cup CrudRequests \cup CallerRequests

\* what one client sends: one request, or the same file uploaded twice
\* (its date columns possibly edited in between)
Workloads ==
  {<<x>> : x \in Requests} \cup
  {<<x, [x EXCEPT !.fecha = d]>> :
     x \in {u \in UploadRequests : u.att = "ok" /\ u.fecha = 1}, d \in Fechas}

EmptyDb == [t \in Tables |-> {}]
SeededDb ==
  [t \in Tables |->
     CASE t = "p_cargo_contacto" -> {[pk |-> 1, key |-> 1, ref |-> 0, info |-> 1]}
       [] t = "p_contacto" -> {[pk |-> 1, key |-> 1, ref |-> 1, info |-> 1]}
       [] t = "p_empresa" -> {[pk |-> 1, key |-> 1, ref |-> 1, info |-> 1]}
       [] t = "p_programa" -> {[pk |-> 1, key |-> 1, ref |-> 0, info |-> 1]}
       [] t = "p_estudiante" -> {[pk |-> 1, key |-> 1, ref |-> 1, info |-> 1]}
       [] t = "p_practica" -> {[pk |-> 1, est |-> 1, emp |-> 1, prog |-> 1, fecha |-> 1]}
       [] t = "contacto" -> {[pk |-> 1, info |-> 1]}]
InitialDbs == {EmptyDb, SeededDb}

NoData == Candidate(0, 0, 0)
FreshReq ==
  [pc |-> "idle", kind |-> "none", att |-> "ok", file |-> <<>>, fecha |-> 0,
   key |-> 0, info |-> 0,
   conn |-> 0,            \* the handle's connection, 0 before getConnection returns
   i |-> 0,               \* the loop index of the import, 1-based
   e |-> 0,               \* which of the five entities of the row is being resolved
   phase |-> "none",      \* the next statement of getOrCreate
   table |-> "none", data |-> NoData,
   ids |-> <<0, 0, 0, 0, 0>>,   \* the identifiers returned for the row so far
   branch |-> "none",     \* the arm of the internship upsert
   target |-> 0,
   inserted |-> FALSE,    \* the running getOrCreate call issued its INSERT
   callBefore |-> {},     \* the table when the running getOrCreate call began
   \* observations
   log |-> <<>>,          \* statements issued on the handle, in order
   resp |-> <<>>,         \* HTTP statuses sent
   rejected |-> FALSE,    \* the handler's promise was rejected
   timedOut |-> FALSE,    \* getConnection gave up waiting for a free connection
   acquired |-> 0, released |-> 0,
   txAtAcquire |-> FALSE, \* the connection came with a transaction left open
   before |-> EmptyDb,    \* committed tables when the request arrived
   hist |-> <<>>,         \* finished getOrCreate calls of a direct caller
   prev |-> NoRequest, prevResp |-> <<>>]

Init ==
  /\ dbType \in DbTypes
  /\ db \in InitialDbs
  /\ conn = [c \in Conns |-> [owner |-> 0, tx |-> FALSE, pend |-> <<>>]]
  /\ req = [r \in Reqs |-> FreshReq]
  /\ \E w \in Workloads : workload = [r \in Reqs |-> IF r = 1 THEN w ELSE <<>>]
  /\ faults = MaxFaults
  /\ call = NoCall

FaultChoices == IF faults > 0 THEN {FALSE, TRUE} ELSE {FALSE}
Spend(fail) == IF fail THEN faults - 1 ELSE faults

\* ret: the kind of value connection.query resolved to
Logged(q, sql, row, out) ==
  Append(q.log, [op |-> sql[1].s, t |-> IF Len(sql) > 1 THEN sql[2].s ELSE "none",
                 row |-> row, ok |-> ~out.err, ret |-> out.value.t])

\* variant: the handler without its finally block
ReleaseMissing(q) == q

\* connection.release() in a finally block
Release(q) == [q EXCEPT !.conn = 0, !.released = @ + 1]
Released(c) == [conn[c] EXCEPT !.owner = 0]

Respond(q, status) == [q EXCEPT !.resp = Append(@, status)]
Finish(q) == [q EXCEPT !.pc = "done"]

\* variant: the upload handler without its two early returns
ArriveUnchecked(q) == [q EXCEPT !.pc = "acquire"]

\* if (!req.file) return 400; if (!worksheet) return 400; then getConnection
Arrive(q) ==
  IF q.kind = "upload" /\ q.att # "ok" THEN Finish(Respond(q, 400))
  ELSE [q EXCEPT !.pc = "acquire"]

\* a request arrives; the upload handler answers 400 before touching the
\* database when the file or the sheet is missing
Start(r) ==
  /\ req[r].pc \in {"idle", "done"}
  /\ workload[r] # <<>>
  /\ LET x == Head(workload[r])
         q == [FreshReq EXCEPT !.kind = x.kind, !.att = x.att, !.file = x.file,
                 !.fecha = x.fecha, !.key = x.key, !.info = x.info,
                 !.before = db,
                 !.prev = [kind |-> req[r].kind, att |-> req[r].att,
                           file |-> req[r].file, fecha |-> req[r].fecha,
                           key |-> req[r].key, info |-> req[r].info],
                 !.prevResp = req[r].resp]
     IN req' = [req EXCEPT ![r] = Arrive(q)]
  /\ workload' = [workload EXCEPT ![r] = Tail(@)]
  /\ UNCHANGED <<call, dbType, db, conn, faults>>

\* variant: a connection is taken from a pool before the selector is rejected
AcquireUnsupportedTakesConnection(r) ==
  /\ req[r].pc = "acquire"
  /\ dbType \notin {"mysql", "postgres"}
  /\ \E c \in Conns :
       /\ conn[c].owner = 0
       /\ conn' = [conn EXCEPT ![c].owner = r]
  /\ req' = [req EXCEPT ![r] = Finish([@ EXCEPT !.rejected = TRUE])]
  /\ UNCHANGED <<call, dbType, db, workload, faults>>

\* getConnection with a backend selector that is neither mysql nor postgres:
\* it throws outside the handler's try block
AcquireUnsupported(r) ==
  /\ req[r].pc = "acquire"
  /\ dbType \notin {"mysql", "postgres"}
  /\ req' = [req EXCEPT ![r] = Finish([@ EXCEPT !.rejected = TRUE])]
  /\ UNCHANGED <<call, dbType, db, conn, workload, faults>>

\* mysqlPool.getConnection() / postgresPool.connect() rejects (the backend
\* cannot be reached): getConnection throws outside the handler's try block
AcquireFails(r) ==
  /\ req[r].pc = "acquire"
  /\ dbType \in {"mysql", "postgres"}
  /\ req' = [req EXCEPT ![r] = Finish([@ EXCEPT !.rejected = TRUE])]
  /\ UNCHANGED <<call, dbType, db, conn, workload, faults>>

\* postgresPool.connect() with connectionTimeoutMillis: every connection is
\* in use and the wait for one has lasted the configured time; the mysql pool
\* (waitForConnections, no limit on the queue) keeps the caller waiting
AcquireTimesOut(r) ==
  /\ req[r].pc = "acquire"
  /\ dbType = "postgres"
  /\ \A c \in Conns : conn[c].owner # 0
  /\ req' = [req EXCEPT ![r] = Finish([@ EXCEPT !.rejected = TRUE, !.timedOut = TRUE])]
  /\ UNCHANGED <<call, dbType, db, conn, workload, faults>>

AfterAcquire(kind) ==
  CASE kind = "upload" -> "begin"
    [] kind = "caller" -> "call"
    [] OTHER -> "query"

\* getConnection: the pool hands out an idle connection
Acquire(r, c) ==
  /\ req[r].pc = "acquire"
  /\ dbType \in {"mysql", "postgres"}
  /\ conn[c].owner = 0
  /\ conn' = [conn EXCEPT ![c].owner = r]
  /\ req' = [req EXCEPT ![r] = [@ EXCEPT !.conn = c, !.acquired = @ + 1,
                                  !.txAtAcquire = conn[c].tx,
                                  !.pc = AfterAcquire(req[r].kind)]]
  /\ UNCHANGED <<call, dbType, db, workload, faults>>


\* the effect of one statement of request r on the database and the budget
Effect(c, out, fail) ==
  /\ db' = DbAfter(c, out.eff)
  /\ conn' = [conn EXCEPT ![c] = ConnAfter(c, out.eff)]
  /\ faults' = Spend(fail)

StageTable(e) ==
  CASE e = 1 -> "p_cargo_contacto"
    [] e = 2 -> "p_contacto"
    [] e = 3 -> "p_empresa"
    [] e = 4 -> "p_programa"
    [] e = 5 -> "p_estudiante"

\* cargoContactoData, contactoData, empresaData, programaData, estudianteData
StageData(row, ids, e) ==
  CASE e = 1 -> Candidate(row.cargo, 0, row.info)
    [] e = 2 -> Candidate(row.contacto, ids[1], row.info)
    [] e = 3 -> Candidate(row.nit, ids[2], row.info)
    [] e = 4 -> Candidate(row.programa, 0, row.info)
    [] e = 5 -> Candidate(row.estudiante, ids[2], row.info)

\* the call getOrCreate(connection, table, data, uniqueField) for entity e of row i
EnterStage(q, i, e, ids) ==
  [q EXCEPT !.pc = "goc", !.i = i, !.e = e, !.ids = ids, !.phase = "select",
            !.table = StageTable(e), !.data = StageData(q.file[i], ids, e),
            !.inserted = FALSE]

CallRecord(q, threw, rec, after) ==
  [table |-> q.table, key |-> q.data.key, ref |-> q.data.ref, info |-> q.data.info,
   threw |-> threw, ret |-> rec, inserted |-> q.inserted,
   before |-> q.callBefore, after |-> after]

\* getOrCreate returns rec to its caller
AfterReturn(q, rec, after) ==
  IF q.kind = "upload"
  THEN LET ids2 == [q.ids EXCEPT ![q.e] = rec.pk] IN
       IF q.e < 5 THEN EnterStage(q, q.i, q.e + 1, ids2)
       ELSE [q EXCEPT !.pc = "pracSelect", !.ids = ids2, !.phase = "none"]
  ELSE [q EXCEPT !.pc = "call", !.phase = "none",
                 !.hist = Append(@, CallRecord(q, FALSE, rec, after))]

\* variant: getOrCreate catches the error and returns the candidate record
AfterThrowReturnsData(q, after) == AfterReturn(q, Fallback(q.data), after)

\* variant: getOrCreate swallows the error and the import carries on to COMMIT
AfterThrowSwallowed(q, after) ==
  IF q.kind = "upload"
  THEN [q EXCEPT !.pc = "commit", !.phase = "none"]
  ELSE [q EXCEPT !.pc = "call", !.phase = "none",
                 !.hist = Append(@, CallRecord(q, TRUE, Fallback(NoData), after))]

\* getOrCreate logs and re-throws: the import's catch block, or the caller
AfterThrow(q, after) ==
  IF q.kind = "upload"
  THEN [q EXCEPT !.pc = "rollback", !.phase = "none"]
  ELSE [q EXCEPT !.pc = "call", !.phase = "none",
                 !.hist = Append(@, CallRecord(q, TRUE, Fallback(NoData), after))]

\* const rows = await connection.query(selectQuery); if (rows.length > 0) return rows[0]
GocSelect(r) ==
  /\ req[r].pc = "goc" /\ req[r].phase = "select"
  /\ \E fail \in FaultChoices :
       LET q == req[r]
           c == q.conn
           sql == Format(SelectBy(q.table, UniqueField(q.table)), Arr(<<JsId(q.data.key)>>))
           out == queryWrapper(c, sql, Undefined, fail)
           q1 == [q EXCEPT !.log = Logged(q, sql, q.i, out)]
           after == DbAfter(c, out.eff)[q.table]
       IN /\ req' = [req EXCEPT ![r] =
                       IF out.err THEN AfterThrow(q1, after)
                       ELSE IF LengthPositive(out.value)
                            THEN AfterReturn(q1, Existing(out.value.rows[1]), after)
                            ELSE [q1 EXCEPT !.phase = "insert"]]
          /\ Effect(c, out, fail)
  /\ UNCHANGED <<call, dbType, workload>>

\* const result = await connection.query(insertQuery); data.id = ...
GocInsert(r) ==
  /\ req[r].pc = "goc" /\ req[r].phase = "insert"
  /\ \E fail \in FaultChoices :
       LET q == req[r]
           c == q.conn
           sql == Format(InsertSet(q.table), Obj(Columns(q.data)))
           out == queryWrapper(c, sql, Undefined, fail)
           q1 == [q EXCEPT !.log = Logged(q, sql, q.i, out), !.inserted = TRUE]
           after == DbAfter(c, out.eff)[q.table]
       IN /\ req' = [req EXCEPT ![r] =
                       IF out.err THEN AfterThrow(q1, after)
                       ELSE [q1 EXCEPT !.phase = "reselect",
                                       !.data.id = InsertedId(out.value)]]
          /\ Effect(c, out, fail)
  /\ UNCHANGED <<call, dbType, workload>>

\* const rows2 = await connection.query(selectQuery2); merge, or return data
GocReselect(r) ==
  /\ req[r].pc = "goc" /\ req[r].phase = "reselect"
  /\ \E fail \in FaultChoices :
       LET q == req[r]
           c == q.conn
           sql == Format(SelectBy(q.table, UniqueField(q.table)), Arr(<<JsId(q.data.key)>>))
           out == queryWrapper(c, sql, Undefined, fail)
           q1 == [q EXCEPT !.log = Logged(q, sql, q.i, out)]
           after == DbAfter(c, out.eff)[q.table]
       IN /\ req' = [req EXCEPT ![r] =
                       IF out.err THEN AfterThrow(q1, after)
                       ELSE IF LengthPositive(out.value)
                            THEN AfterReturn(q1, Merge(q.data, out.value.rows[1]), after)
                            ELSE AfterReturn(q1, Fallback(q.data), after)]
          /\ Effect(c, out, fail)
  /\ UNCHANGED <<call, dbType, workload>>

\* ------------------------------------------------------------ POST /upload
\* variant: the loop test written as i < jsonData.length - 1
EnterRowSkipsLast(q, i) ==
  IF i < Len(q.file) THEN EnterStage(q, i, 1, <<0, 0, 0, 0, 0>>)
  ELSE [q EXCEPT !.pc = "commit", !.i = i]

\* the loop test i < jsonData.length, then the first getOrCreate of row i
EnterRow(q, i) ==
  IF i <= Len(q.file) THEN EnterStage(q, i, 1, <<0, 0, 0, 0, 0>>)
  ELSE [q EXCEPT !.pc = "commit", !.i = i]

\* await connection.query('BEGIN')
UploadBegin(r) ==
  /\ req[r].pc = "begin"
  /\ \E fail \in FaultChoices :
       LET q == req[r]
           c == q.conn
           sql == Control("BEGIN")
           out == queryWrapper(c, sql, Undefined, fail)
           q1 == [q EXCEPT !.log = Logged(q, sql, 0, out)]
       IN /\ req' = [req EXCEPT ![r] =
                       IF out.err THEN [q1 EXCEPT !.pc = "rollback"]
                       ELSE EnterRow(q1, 1)]
          /\ Effect(c, out, fail)
  /\ UNCHANGED <<call, dbType, workload>>

RowVal(x) == [t |-> "row", row |-> x]

\* const [practicaRows] = <value>: the first element of an iterable
Iterable(v) == v.t \in {"rows", "array"}
FirstOf(v) == IF v.t = "rows" /\ Len(v.rows) > 0 THEN RowVal(v.rows[1]) ELSE Undefined

\* const [practicaRows] = ...; if (practicaRows.length > 0) ... practicaRows[0].id_practica
PracticaBranch(v) ==
  IF ~Iterable(v) THEN [arm |-> "throw", target |-> 0]
  ELSE LET first == FirstOf(v) IN
       IF first.t = "undefined" THEN [arm |-> "throw", target |-> 0]
       ELSE IF LengthPositive(first)
            THEN [arm |-> "update", target |-> first.rows[1].pk]
            ELSE [arm |-> "insert", target |-> 0]

PracticaData(q) ==
  [est |-> q.ids[5], emp |-> q.ids[3], prog |-> q.ids[4], fecha |-> q.fecha]

\* the lookup of the internship row of the (student, company, program) triple
UploadPracticaSelect(r) ==
  /\ req[r].pc = "pracSelect"
  /\ \E fail \in FaultChoices :
       LET q == req[r]
           c == q.conn
           sql == SelectPractica
           out == queryWrapper(c, sql,
                    Arr(<<JsId(q.ids[5]), JsId(q.ids[3]), JsId(q.ids[4])>>), fail)
           q1 == [q EXCEPT !.log = Logged(q, sql, q.i, out)]
           b == PracticaBranch(out.value)
       IN /\ req' = [req EXCEPT ![r] =
                       IF out.err \/ b.arm = "throw" THEN [q1 EXCEPT !.pc = "rollback"]
                       ELSE [q1 EXCEPT !.pc = "pracWrite", !.branch = b.arm,
                                       !.target = b.target]]
          /\ Effect(c, out, fail)
  /\ UNCHANGED <<call, dbType, workload>>

\* UPDATE p_practica SET ? WHERE id_practica = ?  or  INSERT INTO p_practica SET ?
UploadPracticaWrite(r) ==
  /\ req[r].pc = "pracWrite"
  /\ \E fail \in FaultChoices :
       LET q == req[r]
           c == q.conn
           sql == IF q.branch = "update" THEN UpdatePractica ELSE InsertSet("p_practica")
           params == IF q.branch = "update"
                     THEN Arr(<<Obj(PracticaData(q)), JsId(q.target)>>)
                     ELSE Obj(PracticaData(q))
           out == queryWrapper(c, sql, params, fail)
           q1 == [q EXCEPT !.log = Logged(q, sql, q.i, out), !.branch = "none"]
       IN /\ req' = [req EXCEPT ![r] =
                       IF out.err THEN [q1 EXCEPT !.pc = "rollback"]
                       ELSE EnterRow(q1, q.i + 1)]
          /\ Effect(c, out, fail)
  /\ UNCHANGED <<call, dbType, workload>>

\* await connection.query('COMMIT'); res.json({message}); finally release
UploadCommit(r) ==
  /\ req[r].pc = "commit"
  /\ \E fail \in FaultChoices :
       LET q == req[r]
           c == q.conn
           sql == Control("COMMIT")
           out == queryWrapper(c, sql, Undefined, fail)
           q1 == [q EXCEPT !.log = Logged(q, sql, 0, out)]
       IN /\ req' = [req EXCEPT ![r] =
                       IF out.err THEN [q1 EXCEPT !.pc = "rollback"]
                       ELSE Finish(Release(Respond(q1, 200)))]
          /\ db' = DbAfter(c, out.eff)
          /\ conn' = [conn EXCEPT ![c] =
                        IF out.err THEN ConnAfter(c, out.eff)
                        ELSE [ConnAfter(c, out.eff) EXCEPT !.owner = 0]]
          /\ faults' = Spend(fail)
  /\ UNCHANGED <<call, dbType, workload>>

\* catch: await connection.query('ROLLBACK'); res.status(500); finally release.
\* When ROLLBACK itself rejects, the catch block is left by the exception:
\* no response is sent and the handler's promise is rejected.
UploadRollback(r) ==
  /\ req[r].pc = "rollback"
  /\ \E fail \in FaultChoices :
       LET q == req[r]
           c == q.conn
           sql == Control("ROLLBACK")
           out == queryWrapper(c, sql, Undefined, fail)
           q1 == [q EXCEPT !.log = Logged(q, sql, 0, out)]
       IN /\ req' = [req EXCEPT ![r] =
                       IF out.err THEN Finish(Release([q1 EXCEPT !.rejected = TRUE]))
                       ELSE Finish(Release(Respond(q1, 500)))]
          /\ db' = DbAfter(c, out.eff)
          /\ conn' = [conn EXCEPT ![c] = [ConnAfter(c, out.eff) EXCEPT !.owner = 0]]
          /\ faults' = Spend(fail)
  /\ UNCHANGED <<call, dbType, workload>>


\* ----------------------------------------------------------- CRUD handlers
\* res.json(rows)
GetAllStatus(v) == 200
\* variant: the handler without its rows.length === 0 test
GetOneStatusNoCheck(v) == 200
\* if (rows.length === 0) return res.status(404)...; res.json(rows[0])
GetOneStatus(v) == IF v.t = "rows" /\ Len(v.rows) = 0 THEN 404 ELSE 200
\* const [result] = ...; res.status(201).json({ id: result.insertId, ... })
PostStatus(v) ==
  IF ~Iterable(v) THEN 500
  ELSE IF FirstOf(v).t = "undefined" THEN 500 ELSE 201
\* res.json({ message })
WriteStatus(v) == 200

\* the status the try block of a handler sends for the value of its statement
StatusOf(kind, v) ==
  CASE kind = "getAll" -> GetAllStatus(v)
    [] kind = "getOne" -> GetOneStatus(v)
    [] kind = "post" -> PostStatus(v)
    [] OTHER -> WriteStatus(v)

\* one statement inside try / catch (500) / finally (release); a resource's
\* columns are taken as one column
CrudStep(r, sql, params, fail) ==
  LET q == req[r]
      c == q.conn
      out == queryWrapper(c, sql, params, fail)
      q1 == [q EXCEPT !.log = Logged(q, sql, 0, out)]
  IN /\ req' = [req EXCEPT ![r] =
                  Finish(Release(Respond(q1, IF out.err THEN 500
                                             ELSE StatusOf(q.kind, out.value))))]
     /\ db' = DbAfter(c, out.eff)
     /\ conn' = [conn EXCEPT ![c] = [ConnAfter(c, out.eff) EXCEPT !.owner = 0]]
     /\ faults' = Spend(fail)

CrudGetAll(r) ==
  /\ req[r].pc = "query" /\ req[r].kind = "getAll"
  /\ \E fail \in FaultChoices :
       CrudStep(r, SelectAll("contacto"), Undefined, fail)
  /\ UNCHANGED <<call, dbType, workload>>

CrudGetOne(r) ==
  /\ req[r].pc = "query" /\ req[r].kind = "getOne"
  /\ \E fail \in FaultChoices :
       CrudStep(r, SelectBy("contacto", "id"), Arr(<<Val(req[r].key)>>), fail)
  /\ UNCHANGED <<call, dbType, workload>>

CrudPost(r) ==
  /\ req[r].pc = "query" /\ req[r].kind = "post"
  /\ \E fail \in FaultChoices :
       CrudStep(r, InsertValues("contacto"), Arr(<<Val(req[r].info)>>), fail)
  /\ UNCHANGED <<call, dbType, workload>>

CrudPut(r) ==
  /\ req[r].pc = "query" /\ req[r].kind = "put"
  /\ \E fail \in FaultChoices :
       CrudStep(r, UpdateBy("contacto", "id"),
                Arr(<<Val(req[r].info), Val(req[r].key)>>), fail)
  /\ UNCHANGED <<call, dbType, workload>>

CrudDelete(r) ==
  /\ req[r].pc = "query" /\ req[r].kind = "delete"
  /\ \E fail \in FaultChoices :
       CrudStep(r, DeleteBy("contacto", "id"), Arr(<<Val(req[r].key)>>), fail)
  /\ UNCHANGED <<call, dbType, workload>>

\* ------------------------------------------- a direct caller of getOrCreate
\* calls getOrCreate on its handle, one call after the other
CallerCall(r) ==
  /\ req[r].pc = "call"
  /\ Len(req[r].hist) < MaxCalls
  /\ \E table \in CallTables, key \in Nits, info \in Infos :
       req' = [req EXCEPT ![r] =
                 [@ EXCEPT !.pc = "goc", !.phase = "select", !.table = table,
                           !.data = Candidate(key, 1, info), !.inserted = FALSE,
                           !.callBefore = View(req[r].conn)[table]]]
  /\ UNCHANGED <<call, dbType, db, conn, workload, faults>>

CallerFinish(r) ==
  /\ req[r].pc = "call"
  /\ req' = [req EXCEPT ![r] = Finish(Release(@))]
  /\ conn' = [conn EXCEPT ![req[r].conn] = Released(req[r].conn)]
  /\ UNCHANGED <<call, dbType, db, workload, faults>>

Next ==
  \E r \in Reqs :
    \/ Start(r)
    \/ AcquireUnsupported(r)
    \/ AcquireFails(r)
    \/ \E c \in Conns : Acquire(r, c)
    \/ UploadBegin(r)
    \/ GocSelect(r)
    \/ GocInsert(r)
    \/ GocReselect(r)
    \/ UploadPracticaSelect(r)
    \/ UploadPracticaWrite(r)
    \/ UploadCommit(r)
    \/ UploadRollback(r)
    \/ CrudGetAll(r)
    \/ CrudGetOne(r)
    \/ CrudPost(r)
    \/ CrudPut(r)
    \/ CrudDelete(r)
    \/ CallerCall(r)
    \/ CallerFinish(r)

Spec == Init /\ [][Next]_vars

\* ------------------------------------------------------ two clients at once
\* the HTTP requests sent at once: an upload carries at most one data row,
\* with the first of the dates
ConcurrentRequests ==
  {y \in UploadRequests \cup CrudRequests : Len(y.file) <= 1 /\ y.fecha <= 1}

\* one client sends any of these requests, the other an import of one row;
\* their steps interleave at every await; no statement is rejected by the
\* database
ConcurrentInit ==
  /\ dbType \in DbTypes
  /\ db \in InitialDbs
  /\ conn = [c \in Conns |-> [owner |-> 0, tx |-> FALSE, pend |-> <<>>]]
  /\ req = [r \in Reqs |-> FreshReq]
  /\ \E x \in ConcurrentRequests :
       \E y \in {u \in ConcurrentRequests : u.kind = "upload" /\ Len(u.file) = 1} :
         workload = [r \in Reqs |-> CASE r = 1 -> <<x>> [] r = 2 -> <<y>> [] OTHER -> <<>>]
  /\ faults = 0
  /\ call = NoCall

\* the steps of the route handlers
ConcurrentNext ==
  \E r \in Reqs :
    \/ Start(r)
    \/ AcquireUnsupported(r)
    \/ AcquireFails(r)
    \/ \E c \in Conns : Acquire(r, c)
    \/ UploadBegin(r)
    \/ GocSelect(r)
    \/ GocInsert(r)
    \/ GocReselect(r)
    \/ UploadPracticaSelect(r)
    \/ UploadPracticaWrite(r)
    \/ UploadCommit(r)
    \/ UploadRollback(r)
    \/ CrudGetAll(r)
    \/ CrudGetOne(r)
    \/ CrudPost(r)
    \/ CrudPut(r)
    \/ CrudDelete(r)

ConcurrentSpec == ConcurrentInit /\ [][ConcurrentNext]_vars

\* ------------------------------------- the adapter's functions called directly
\* statements in the generic syntax: text units and the marker "?"
Units == {Kw("x"), Kw("y"), Marker}
Statements == UNION {[1..n -> Units] : n \in 0..MaxLen}
\* a parameter list, or a Record handed over as the parameters
ParamLists == {Arr(a) : a \in UNION {[1..n -> {Val(1), Val(2)}] : n \in 0..MaxParams}}
ParamRecords == {Obj(Columns(Candidate(k, 0, 1))) : k \in Nits}

\* a candidate record with the id of its INSERT attached, and a stored row
InsertedCandidates ==
  {[Candidate(k, f, n) EXCEPT !.id = d] : k \in Nits, f \in {0, 1}, n \in Infos, d \in {1, 2}}
StoredRows == [pk : {1, 2}, key : Nits, ref : {0, 1}, info : Infos]

AdapterInit ==
  /\ dbType \in {"mysql", "postgres"}
  /\ db = EmptyDb
  /\ conn = [c \in Conns |-> [owner |-> 0, tx |-> FALSE, pend |-> <<>>]]
  /\ req = [r \in Reqs |-> FreshReq]
  /\ workload = [r \in Reqs |-> <<>>]
  /\ faults = 0
  /\ \/ \E sql \in Statements, params \in ParamLists \cup ParamRecords :
          call = [NoCall EXCEPT !.sql = sql, !.params = params]
     \/ \E data \in InsertedCandidates, row \in StoredRows :
          call = [NoCall EXCEPT !.data = data, !.row = row]

\* convertQuestionMarksToDollarSigns(sql)
TranslateCall ==
  /\ call.fn = "none"
  /\ call' = [call EXCEPT !.fn = "translate",
                          !.out = convertQuestionMarksToDollarSigns(call.sql)]
  /\ UNCHANGED <<dbType, db, conn, req, workload, faults>>

\* handle.format(sql, params) of a handle of the active backend
FormatCall ==
  /\ call.fn = "none"
  /\ call' = [call EXCEPT !.fn = "format", !.out = Format(call.sql, call.params)]
  /\ UNCHANGED <<dbType, db, conn, req, workload, faults>>

\* the return statement of getOrCreate after its re-select found a row
ReturnMerged ==
  /\ call.fn = "none"
  /\ call' = [call EXCEPT !.fn = "merge", !.out = Merge(call.data, call.row)]
  /\ UNCHANGED <<dbType, db, conn, req, workload, faults>>

AdapterNext == TranslateCall \/ FormatCall \/ ReturnMerged

AdapterSpec == AdapterInit /\ [][AdapterNext]_vars


\* ------------------------------------------ sheets with cells left empty
\* a data row any of whose key cells may be empty
SheetRows ==
  [cargo : Cargos \cup {Blank}, contacto : Contactos \cup {Blank},
   nit : Nits \cup {Blank}, programa : Programas \cup {Blank},
   estudiante : Estudiantes \cup {Blank}, info : {1}]
SheetRequests ==
  {[kind |-> "upload", att |-> "ok", file |-> <<x>>, fecha |-> 1, key |-> 0, info |-> 0] :
     x \in SheetRows}

\* one client imports a sheet of one such row; the database may reject one
\* statement (a column that does not accept NULL, among other reasons)
SheetInit ==
  /\ dbType \in {"mysql", "postgres"}
  /\ db \in InitialDbs
  /\ conn = [c \in Conns |-> [owner |-> 0, tx |-> FALSE, pend |-> <<>>]]
  /\ req = [r \in Reqs |-> FreshReq]
  /\ \E x \in SheetRequests :
       workload = [r \in Reqs |-> IF r = 1 THEN <<x>> ELSE <<>>]
  /\ faults = 1
  /\ call = NoCall

\* the steps of the upload handler
SheetNext ==
  \E r \in Reqs :
    \/ Start(r)
    \/ \E c \in Conns : Acquire(r, c)
    \/ UploadBegin(r)
    \/ GocSelect(r)
    \/ GocInsert(r)
    \/ GocReselect(r)
    \/ UploadPracticaSelect(r)
    \/ UploadPracticaWrite(r)
    \/ UploadCommit(r)
    \/ UploadRollback(r)

SheetSpec == SheetInit /\ [][SheetNext]_vars

\* ------------------------------------------- more requests than connections
\* a request that needs one statement
ShortRequests == {u \in CrudRequests : u.kind = "getAll" /\ u.key = 1}

\* three clients and a pool of two connections: one client sends any request,
\* the other two a short one; the backend is reachable and no statement is
\* rejected
PoolInit ==
  /\ dbType \in {"mysql", "postgres"}
  /\ db \in InitialDbs
  /\ conn = [c \in Conns |-> [owner |-> 0, tx |-> FALSE, pend |-> <<>>]]
  /\ req = [r \in Reqs |-> FreshReq]
  /\ \E x \in ConcurrentRequests : \E y \in ShortRequests :
       workload = [r \in Reqs |-> IF r = 1 THEN <<x>> ELSE <<y>>]
  /\ faults = 0
  /\ call = NoCall

\* the steps of the route handlers when the backend is reachable
PoolNext ==
  \E r \in Reqs :
    \/ Start(r)
    \/ \E c \in Conns : Acquire(r, c)
    \/ AcquireTimesOut(r)
    \/ UploadBegin(r)
    \/ GocSelect(r)
    \/ GocInsert(r)
    \/ GocReselect(r)
    \/ UploadPracticaSelect(r)
    \/ UploadPracticaWrite(r)
    \/ UploadCommit(r)
    \/ UploadRollback(r)
    \/ CrudGetAll(r)
    \/ CrudGetOne(r)
    \/ CrudPost(r)
    \/ CrudPut(r)
    \/ CrudDelete(r)

\* the steps of request r that wait for no statement: its arrival and the
\* outcome of getConnection
EntryOf(r) ==
  \/ Start(r)
  \/ \E c \in Conns : Acquire(r, c)
  \/ AcquireTimesOut(r)

\* request r has issued a statement, or is about to, on the handle it holds
InFlight(r) ==
  req[r].pc \in {"begin", "goc", "pracSelect", "pracWrite", "commit", "rollback", "query"}

\* the event loop runs every continuation that is ready (a request that can
\* arrive or be handed a connection eventually does), and every statement
\* issued eventually returns or fails (no request waits for one forever)
PoolSpec ==
  /\ PoolInit /\ [][PoolNext]_vars
  /\ \A r \in Reqs : WF_vars(EntryOf(r)) /\ []<>~InFlight(r)

\* ================================================================== claims
IsImport(q) == q.kind = "upload" /\ q.att = "ok"
Failed(q) == {j \in 1..Len(q.log) : ~q.log[j].ok}
Issued(q, word) == {j \in 1..Len(q.log) : q.log[j].op = word}
AllOk(q) == Failed(q) = {}
NoInjectedFault == faults = MaxFaults

\* C1: a handle obtained from getConnection is released exactly once, on
\* every handler and every outcome: never more releases than acquisitions,
\* a held connection belongs to the request that holds the handle, and a
\* finished request has released the handle it acquired.
C1_ReleasedExactlyOnce ==
  \A r \in Reqs :
    /\ req[r].acquired <= 1
    /\ req[r].released <= req[r].acquired
    /\ \A c \in Conns : conn[c].owner = r <=> req[r].conn = c
    /\ req[r].pc = "done" => req[r].released = req[r].acquired /\ req[r].conn = 0
    /\ req[r].pc \notin {"idle", "acquire", "done"} =>
         req[r].acquired = 1 /\ req[r].released = 0

\* an import whose ROLLBACK threw inside the catch block finished with its
\* handle released once
C1_Witness ==
  \E r \in Reqs :
    /\ req[r].pc = "done" /\ req[r].acquired = 1 /\ req[r].released = 1
    /\ IsImport(req[r]) /\ req[r].rejected
    /\ \E j \in Failed(req[r]) : req[r].log[j].op = "ROLLBACK"

FailsAtARow(q) ==
  /\ IsImport(q) /\ q.pc = "done" /\ ~q.txAtAcquire
  /\ Cardinality(Failed(q)) = 1
  /\ \A j \in Failed(q) : q.log[j].row >= 1

\* C2: an import in which a statement of some row fails (and no other
\* statement does, on a handle that carried no transaction left open by an
\* earlier request) leaves the committed tables as they were when the
\* request arrived and answers 500.
C2_FullRollback ==
  \A r \in Reqs :
    FailsAtARow(req[r]) => db = req[r].before /\ req[r].resp = <<500>>

\* the failure came after an earlier statement of the import had inserted a row
C2_Witness ==
  \E r \in Reqs :
    /\ FailsAtARow(req[r])
    /\ \E j \in Issued(req[r], "INSERT INTO") :
         req[r].log[j].ok /\ \E k \in Failed(req[r]) : j < k
    /\ db = req[r].before /\ req[r].resp = <<500>>

\* C3: an import of one or more rows in which every statement succeeds
\* answers 200, not 500.
C3_ImportAnswers200 ==
  \A r \in Reqs :
    (/\ IsImport(req[r]) /\ req[r].pc = "done" /\ req[r].acquired = 1
     /\ Len(req[r].file) >= 1 /\ AllOk(req[r]))
    => req[r].resp = <<200>>

RowsDone(q, j) ==
  /\ \A k \in 1..(j - 1) : q.log[k].ok
  /\ \A i \in 1..Len(q.file) :
       \E k \in 1..(j - 1) : q.log[k].row = i /\ q.log[k].t = "p_practica"
                             /\ q.log[k].op \in {"INSERT INTO", "UPDATE"}
BeginFirst(q) == Len(q.log) > 0 => q.log[1].op = "BEGIN" /\ Cardinality(Issued(q, "BEGIN")) = 1
CommitAfterRows(q) == \A j \in Issued(q, "COMMIT") : RowsDone(q, j)

\* C4 as written: BEGIN first, COMMIT only after every row's statements
\* succeeded, and never both COMMIT and ROLLBACK in one run.
C4_ExactlyOneOfCommitRollback ==
  \A r \in Reqs :
    IsImport(req[r]) =>
      /\ BeginFirst(req[r])
      /\ CommitAfterRows(req[r])
      /\ ~(Issued(req[r], "COMMIT") # {} /\ Issued(req[r], "ROLLBACK") # {})
      /\ req[r].pc = "done" /\ req[r].acquired = 1 =>
           Issued(req[r], "COMMIT") # {} \/ Issued(req[r], "ROLLBACK") # {}

\* C4 amended: BEGIN first, COMMIT only after every row's statements
\* succeeded, every finished run issued COMMIT or ROLLBACK, each at most
\* once, and both only when the COMMIT itself failed: the ROLLBACK is then
\* the next and last statement.
C4_RollbackOnlyAfterFailedCommit ==
  \A r \in Reqs :
    IsImport(req[r]) =>
      /\ BeginFirst(req[r])
      /\ CommitAfterRows(req[r])
      /\ Cardinality(Issued(req[r], "COMMIT")) <= 1
      /\ Cardinality(Issued(req[r], "ROLLBACK")) <= 1
      /\ \A j \in Issued(req[r], "ROLLBACK") : j = Len(req[r].log)
      /\ \A j \in Issued(req[r], "COMMIT") :
           IF req[r].log[j].ok THEN j = Len(req[r].log)
           ELSE req[r].pc = "rollback" \/ Issued(req[r], "ROLLBACK") = {j + 1}
      /\ req[r].pc = "done" /\ req[r].acquired = 1 =>
           Issued(req[r], "COMMIT") # {} \/ Issued(req[r], "ROLLBACK") # {}

\* a run of one or more rows whose COMMIT failed and was followed by ROLLBACK
C4_Witness ==
  \E r \in Reqs :
    /\ IsImport(req[r]) /\ req[r].pc = "done" /\ Len(req[r].file) >= 1
    /\ \E j \in Issued(req[r], "COMMIT") :
         ~req[r].log[j].ok /\ Issued(req[r], "ROLLBACK") = {j + 1}

SameTriple(x, y) == x.est = y.est /\ x.emp = y.emp /\ x.prog = y.prog

\* C5: at the internship upsert, an existing row of the (student, company,
\* program) triple is updated and none is inserted, a missing one is
\* inserted; so the committed table never holds two rows of one triple.
C5_UpsertInPlace ==
  /\ \A r \in Reqs :
       req[r].pc = "pracWrite" =>
         LET known == \E x \in View(req[r].conn)["p_practica"] :
                         SameTriple(x, PracticaData(req[r]))
         IN req[r].branch = (IF known THEN "update" ELSE "insert")
  /\ \A x, y \in db["p_practica"] : SameTriple(x, y) => x = y

\* C6: an import of two rows that share a company tax ID, for two students,
\* on a database that does not know the company, creates one company and
\* two internships linked to it.
C6_OneCompanyTwoInternships ==
  \A r \in Reqs :
    LET q == req[r] IN
    (/\ IsImport(q) /\ q.pc = "done" /\ q.acquired = 1 /\ AllOk(q)
     /\ Len(q.file) = 2
     /\ q.file[1].nit = q.file[2].nit
     /\ q.file[1].estudiante # q.file[2].estudiante
     /\ ~\E x \in q.before["p_empresa"] : x.key = q.file[1].nit)
    => LET made == {x \in db["p_empresa"] : x.key = q.file[1].nit} IN
       /\ Cardinality(made) = 1
       /\ Cardinality({p \in db["p_practica"] : \E x \in made : p.emp = x.pk}) = 2

PksOf(table, key) == {x.pk : x \in {y \in db[table] : y.key = key}}
OfRow(p, row) ==
  /\ p.est \in PksOf("p_estudiante", row.estudiante)
  /\ p.emp \in PksOf("p_empresa", row.nit)
  /\ p.prog \in PksOf("p_programa", row.programa)

\* C7: the second of two runs of the same file adds no entity row and no
\* internship row, and leaves each internship row of the file with the
\* second run's dates.
C7_SecondRunAddsNothing ==
  \A r \in Reqs :
    LET q == req[r] IN
    (/\ IsImport(q) /\ q.pc = "done" /\ q.acquired = 1 /\ AllOk(q)
     /\ q.prev.kind = "upload" /\ q.prev.file = q.file /\ q.prevResp = <<200>>)
    => /\ \A t \in EntityTables : db[t] = q.before[t]
       /\ Cardinality(db["p_practica"]) = Cardinality(q.before["p_practica"])
       /\ \A i \in 1..Len(q.file) : \A p \in db["p_practica"] :
            OfRow(p, q.file[i]) => p.fecha = q.fecha

FirstMatch(table, key) ==
  Existing(SortByPk({x \in table : x.key = key})[1])

\* C8: two getOrCreate calls in sequence for a key that matches a stored row
\* return that stored row both times, insert nothing and leave the table
\* unchanged (no statement failing in the database).
C8_GetOrCreateIdempotent ==
  \A r \in Reqs :
    \A j \in 1..(Len(req[r].hist) - 1) :
      LET a == req[r].hist[j]
          b == req[r].hist[j + 1]
      IN (/\ NoInjectedFault
          /\ a.table = b.table /\ a.key = b.key /\ a.ref = b.ref /\ a.info = b.info
          /\ \E x \in a.before : x.key = a.key)
         => /\ ~a.threw /\ ~b.threw
            /\ a.ret = FirstMatch(a.before, a.key) /\ b.ret = a.ret
            /\ ~a.inserted /\ ~b.inserted
            /\ a.after = a.before /\ b.after = a.before

\* C9: getOrCreate for a key that matches no row inserts exactly one row and
\* returns the caller's fields with the backend-assigned identifier, on
\* either backend (no statement failing in the database).
C9_CreatesOneRow ==
  \A r \in Reqs :
    \A j \in 1..Len(req[r].hist) :
      LET a == req[r].hist[j] IN
      (NoInjectedFault /\ ~\E x \in a.before : x.key = a.key)
      => /\ ~a.threw
         /\ Cardinality(a.after) = Cardinality(a.before) + 1
         /\ a.ret.key = a.key /\ a.ret.ref = a.ref /\ a.ret.info = a.info
         /\ a.ret.id # 0
         /\ \E x \in a.after \ a.before : x.pk = a.ret.id

UniqueKeys(table) == \A x, y \in table : x.key = y.key => x = y

\* C10: getOrCreate calls run one at a time keep at most one row per
\* unique-key value in the table, committed or seen by the connection.
C10_NoDuplicateKey ==
  /\ \A t \in EntityTables : UniqueKeys(db[t])
  /\ \A c \in Conns : \A t \in EntityTables : UniqueKeys(View(c)[t])

\* a second call for the key the first call inserted found the row
C10_Witness ==
  \E r \in Reqs :
    /\ Len(req[r].hist) = 2
    /\ req[r].hist[1].inserted /\ ~req[r].hist[1].threw
    /\ req[r].hist[2].key = req[r].hist[1].key
    /\ ~req[r].hist[2].inserted /\ ~req[r].hist[2].threw
    /\ Cardinality(db[req[r].hist[1].table]) >= 1

PendingInsert(c, table, key) ==
  \E j \in 1..Len(conn[c].pend) :
    /\ conn[c].pend[j].op = "ins" /\ conn[c].pend[j].t = table
    /\ conn[c].pend[j].row.key = key

\* the rows of key req[r].data.key that the connection of request r can read:
\* the committed ones and those its own transaction has written
OwnRows(r) ==
  LET c == req[r].conn
      d == IF conn[c].tx THEN ApplyAll(db, conn[c].pend) ELSE db
  IN {x \in d[req[r].table] : x.key = req[r].data.key}

\* C11: nothing serializes the select-then-insert sequence of getOrCreate:
\* the first select of a call decides from the committed rows and the rows of
\* its own connection alone, so it goes on to the INSERT whenever these hold
\* no row for the key, whatever another connection has inserted and not yet
\* committed for the same key.
C11_SelectThenInsertNotSerialized ==
  [][\A r \in Reqs :
       (/\ req[r].pc = "goc" /\ req[r].phase = "select"
        /\ req'[r] # req[r]
        /\ req'[r].log[Len(req'[r].log)].ok)
       => (req'[r].pc = "goc" /\ req'[r].phase = "insert") <=> (OwnRows(r) = {})]_vars

\* two imports, each on its own connection, found no row for one key of one
\* table and both inserted: two inserts for the key are pending
C11_Witness ==
  \E r \in Reqs : \E o \in Reqs \ {r} :
    /\ IsImport(req[r]) /\ IsImport(req[o])
    /\ req[r].pc = "goc" /\ req[o].pc = "goc"
    /\ req[r].phase = "reselect" /\ req[o].phase = "reselect"
    /\ req[r].table = req[o].table /\ req[r].data.key = req[o].data.key
    /\ req[r].conn # req[o].conn
    /\ PendingInsert(req[r].conn, req[r].table, req[r].data.key)
    /\ PendingInsert(req[o].conn, req[o].table, req[o].data.key)

MarkersIn(sql) == {p \in 1..Len(sql) : sql[p].k = "?"}
Ordinal(sql, p) == Cardinality({m \in MarkersIn(sql) : m <= p})

\* C12: convertQuestionMarksToDollarSigns turns the N markers of a statement
\* into $1..$N, the k-th marker from the left into $k, and leaves every other
\* unit as it is and where it is.
C12_NumberedInOrder ==
  call.fn = "translate" =>
    /\ Len(call.out) = Len(call.sql)
    /\ \A p \in 1..Len(call.sql) :
         call.out[p] = IF p \in MarkersIn(call.sql)
                       THEN Numbered(Ordinal(call.sql, p))
                       ELSE call.sql[p]
    /\ {call.out[p].n : p \in {m \in 1..Len(call.out) : call.out[m].k = "$n"}}
         = 1..Cardinality(MarkersIn(call.sql))

\* a statement with two markers and text between them was translated
C12_Witness ==
  /\ call.fn = "translate"
  /\ call.sql = <<Marker, Kw("x"), Marker>>
  /\ call.out = <<Numbered(1), Kw("x"), Numbered(2)>>

\* the values format is given: a list, or one Record
ValuesOf(params) == IF params.t = "array" THEN params.a ELSE <<params>>

\* C14: on the numbered-parameter backend, format of a statement with K
\* markers and K values returns the statement with the i-th marker replaced
\* by the i-th value (a Record expanded into its column/value list) and the
\* rest unchanged.
C14_FormatSubstitutes ==
  (/\ call.fn = "format" /\ dbType = "postgres"
   /\ Cardinality(MarkersIn(call.sql)) = Len(ValuesOf(call.params)))
  => /\ Len(call.out) = Len(call.sql)
     /\ \A p \in 1..Len(call.sql) :
          call.out[p] = IF p \in MarkersIn(call.sql)
                        THEN Escape(ValuesOf(call.params)[Ordinal(call.sql, p)])
                        ELSE call.sql[p]

\* C13: on either backend, every statement a caller issues that succeeds
\* resolves connection.query to a flat sequence of Record (SELECT, INSERT,
\* UPDATE, DELETE, BEGIN, COMMIT and ROLLBACK alike).
C13_QueryReturnsRows ==
  \A r \in Reqs : \A j \in 1..Len(req[r].log) :
    req[r].log[j].ok => req[r].log[j].ret = "rows"

Unsupported == dbType \notin {"mysql", "postgres"}
BadUpload(q) == q.kind = "upload" /\ q.att # "ok"

\* C15: with a backend selector other than the two supported ones (unset
\* included) getConnection fails when it is called: no connection of a pool
\* is ever taken, no request ever holds a handle or issues a statement, and
\* every request that called getConnection ended with the error thrown.
C15_UnsupportedBackendFails ==
  Unsupported =>
    /\ \A c \in Conns : conn[c].owner = 0
    /\ \A r \in Reqs :
         /\ req[r].conn = 0 /\ req[r].acquired = 0 /\ req[r].log = <<>>
         /\ req[r].pc \in {"idle", "acquire", "done"}
         /\ (req[r].pc = "done" /\ ~BadUpload(req[r])) => req[r].rejected

\* a request of a process started without DB_TYPE ended with the error
C15_Witness ==
  /\ dbType = "unset"
  /\ \E r \in Reqs : req[r].pc = "done" /\ req[r].rejected /\ req[r].acquired = 0

IsCrud(q) == q.kind \in {"getAll", "getOne", "post", "put", "delete"}

\* C16: a CRUD request whose connection acquisition failed is answered 500.
C16_AcquisitionFailureAnswers500 ==
  \A r \in Reqs :
    (IsCrud(req[r]) /\ req[r].pc = "done" /\ req[r].acquired = 0)
    => req[r].resp = <<500>>

\* C17: a POST that got a connection and whose INSERT succeeded answers 201
\* (500 only when acquisition or the statement fails).
C17_PostAnswers201 ==
  \A r \in Reqs :
    (/\ req[r].kind = "post" /\ req[r].pc = "done"
     /\ req[r].acquired = 1 /\ AllOk(req[r]))
    => req[r].resp = <<201>>

AbsentKey(q) ==
  /\ q.kind = "getOne" /\ q.pc = "done" /\ q.acquired = 1 /\ AllOk(q)
  /\ ~\E x \in q.before["contacto"] : x.pk = q.key

\* C18: GET /{resource}/{key} for a key that matches no row sends 404 and
\* nothing else, and releases its connection.
C18_AbsentKeyAnswers404 ==
  \A r \in Reqs :
    AbsentKey(req[r]) =>
      /\ req[r].resp = <<404>>
      /\ req[r].released = 1 /\ req[r].conn = 0
      /\ \A c \in Conns : conn[c].owner # r

\* the key is absent from a table that holds another row
C18_Witness ==
  \E r \in Reqs :
    /\ AbsentKey(req[r]) /\ req[r].before["contacto"] # {}
    /\ req[r].resp = <<404>> /\ req[r].released = 1

\* C19: POST /upload without a file, or with a workbook lacking the sheet,
\* answers 400 at once: no connection is acquired and no statement issued.
C19_BadUploadAnswers400 ==
  \A r \in Reqs :
    BadUpload(req[r]) =>
      /\ req[r].pc = "done" /\ req[r].resp = <<400>>
      /\ req[r].acquired = 0 /\ req[r].conn = 0 /\ req[r].log = <<>>
      /\ \A c \in Conns : conn[c].owner # r

\* the workbook had no sheet 'Datos'
C19_Witness ==
  \E r \in Reqs :
    /\ req[r].kind = "upload" /\ req[r].att = "nosheet"
    /\ req[r].resp = <<400>> /\ req[r].acquired = 0 /\ req[r].log = <<>>

\* C20: after a statement of the import (other than ROLLBACK itself) fails,
\* the next statement on the handle is ROLLBACK and it is the last one; until
\* it has been issued the handle is still held and nothing has been sent, and
\* a 500 is only ever sent after a ROLLBACK.
C20_RollbackBeforeRelease ==
  \A r \in Reqs :
    IsImport(req[r]) =>
      /\ \A j \in Failed(req[r]) :
           req[r].log[j].op # "ROLLBACK" =>
             IF j = Len(req[r].log)
             THEN /\ req[r].pc = "rollback" /\ req[r].released = 0
                  /\ req[r].resp = <<>> /\ req[r].conn # 0
                  /\ conn[req[r].conn].owner = r
             ELSE req[r].log[j + 1].op = "ROLLBACK" /\ j + 1 = Len(req[r].log)
      /\ req[r].resp = <<500>> =>
           /\ Len(req[r].log) > 0
           /\ req[r].log[Len(req[r].log)].op = "ROLLBACK"
           /\ req[r].released = 1

\* a statement of a row failed, ROLLBACK followed, then 500 and the release
C20_Witness ==
  \E r \in Reqs :
    /\ IsImport(req[r]) /\ req[r].pc = "done"
    /\ \E j \in Failed(req[r]) :
         /\ req[r].log[j].row >= 1
         /\ req[r].log[j + 1].op = "ROLLBACK" /\ req[r].log[j + 1].ok
    /\ req[r].resp = <<500>> /\ req[r].released = 1

\* the statement request r issued in the step just taken
LastOf(q) == q.log[Len(q.log)]

\* C21: a statement of getOrCreate that fails is re-thrown to the caller: the
\* call returns no record (the import goes to its catch block with the row's
\* identifiers as they were, a direct caller sees the call throw), and the
\* one statement the step issued is the failed one, not a ROLLBACK.
C21_GetOrCreateRethrows ==
  [][\A r \in Reqs :
       (/\ req[r].pc = "goc"
        /\ req'[r] # req[r]
        /\ ~LastOf(req'[r]).ok)
       => /\ Len(req'[r].log) = Len(req[r].log) + 1
          /\ LastOf(req'[r]).op \in {"SELECT * FROM", "INSERT INTO"}
          /\ LastOf(req'[r]).t = req[r].table
          /\ IF req[r].kind = "upload"
             THEN req'[r].pc = "rollback" /\ req'[r].ids = req[r].ids
             ELSE /\ req'[r].pc = "call"
                  /\ Len(req'[r].hist) = Len(req[r].hist) + 1
                  /\ req'[r].hist[Len(req'[r].hist)].threw]_vars

\* a direct call failed after its INSERT had been issued: the caller saw it
\* throw, and no ROLLBACK was issued on the handle
C21_Witness ==
  \E r \in Reqs :
    /\ req[r].kind = "caller"
    /\ \E h \in 1..Len(req[r].hist) : req[r].hist[h].threw /\ req[r].hist[h].inserted
    /\ Issued(req[r], "ROLLBACK") = {}
    /\ Failed(req[r]) # {}

\* C24: once a statement of an import has failed, every later statement on
\* the handle is ROLLBACK: none belongs to a row, none to a row after the
\* failing one, and nothing at all follows a ROLLBACK.
C24_NothingAfterFailureButRollback ==
  \A r \in Reqs :
    IsImport(req[r]) =>
      /\ \A j \in Failed(req[r]) :
           \A k \in (j + 1)..Len(req[r].log) :
             req[r].log[k].op = "ROLLBACK" /\ req[r].log[k].row = 0
      /\ \A j \in Failed(req[r]) :
           req[r].log[j].row >= 1 =>
             \A k \in 1..Len(req[r].log) : req[r].log[k].row <= req[r].log[j].row
      /\ \A j \in Issued(req[r], "ROLLBACK") : j = Len(req[r].log)
      /\ req[r].pc = "rollback" =>
           \A k \in 1..Len(req[r].log) : req[r].log[k].row <= req[r].i

\* a two-row import failed at its first row: ROLLBACK followed at once and
\* no statement of the second row was issued
C24_Witness ==
  \E r \in Reqs :
    /\ IsImport(req[r]) /\ req[r].pc = "done" /\ Len(req[r].file) = 2
    /\ \E j \in Failed(req[r]) :
         /\ req[r].log[j].row = 1
         /\ Len(req[r].log) = j + 1
         /\ req[r].log[j + 1].op = "ROLLBACK"
    /\ \A k \in 1..Len(req[r].log) : req[r].log[k].row # 2

\* C26: the record getOrCreate returns after an insert whose re-select
\* found a row has the fields of the candidate and of the stored row: every
\* field of the stored row has the stored value, and every field only the
\* candidate has (the attached id among them) keeps the candidate's value.
C26_MergeStoredRowWins ==
  call.fn = "merge" =>
    /\ DOMAIN call.out = DOMAIN call.data \cup DOMAIN call.row
    /\ \A f \in DOMAIN call.row : call.out[f] = call.row[f]
    /\ \A f \in DOMAIN call.data \ DOMAIN call.row : call.out[f] = call.data[f]

\* a merge of a candidate and a stored row that disagree on a shared field
C26_Witness ==
  /\ call.fn = "merge"
  /\ call.data.info # call.row.info /\ call.out.info = call.row.info
  /\ call.data.id # call.row.pk /\ call.out.id = call.data.id
  /\ call.out.pk = call.row.pk

IsHttp(q) == IsCrud(q) \/ q.kind = "upload"

EntityRank(t) ==
  CASE t = "p_cargo_contacto" -> 1
    [] t = "p_contacto" -> 2
    [] t = "p_empresa" -> 3
    [] t = "p_programa" -> 4
    [] t = "p_estudiante" -> 5
    [] OTHER -> 6

\* C25: the statements of a row come in the order role, contact, company,
\* program, student, internship; the contact candidate carries the role's
\* identifier, the company and the student candidates the contact's, the
\* internship record the program's, the student's and the company's; and the
\* identifier of every entity whose get-or-create returned is defined.
C25_OrderAndIdentifiers ==
  \A r \in Reqs :
    IsImport(req[r]) =>
      /\ \A j, k \in 1..Len(req[r].log) :
           (j < k /\ req[r].log[j].row >= 1 /\ req[r].log[j].row = req[r].log[k].row)
           => EntityRank(req[r].log[j].t) <= EntityRank(req[r].log[k].t)
      /\ req[r].pc = "goc" =>
           /\ req[r].table = StageTable(req[r].e)
           /\ \A d \in 1..(req[r].e - 1) : req[r].ids[d] # 0
           /\ req[r].e = 2 => req[r].data.ref = req[r].ids[1]
           /\ req[r].e \in {3, 5} => req[r].data.ref = req[r].ids[2]
      /\ req[r].pc \in {"pracSelect", "pracWrite"} =>
           /\ \A d \in 1..5 : req[r].ids[d] # 0
           /\ PracticaData(req[r]).est = req[r].ids[5]
           /\ PracticaData(req[r]).emp = req[r].ids[3]
           /\ PracticaData(req[r]).prog = req[r].ids[4]

\* C22: a request that needed a connection and finished had been handed
\* one: its acquisition did not fail because the time it waited ran out.
C22_AcquisitionNeverTimesOut ==
  \A r \in Reqs :
    (IsHttp(req[r]) /\ ~BadUpload(req[r]) /\ req[r].pc = "done")
    => req[r].acquired = 1 /\ ~req[r].timedOut

\* C30: a request that holds a connection eventually releases it, and a
\* request waiting in getConnection eventually holds a connection.
C30_ReleasedAndServed ==
  \A r \in Reqs :
    /\ (req[r].conn # 0) ~> (req[r].conn = 0)
    /\ (req[r].pc = "acquire") ~> (req[r].conn # 0)


\* C27: every request that reached a route handler and finished was sent
\* exactly one response.
C27_ExactlyOneResponse ==
  \A r \in Reqs :
    IsHttp(req[r]) /\ req[r].pc = "done" => Len(req[r].resp) = 1

\* C28: a connection that is back in the pool has no transaction open.
C28_ReleasedWithoutOpenTransaction ==
  \A c \in Conns : conn[c].owner = 0 => ~conn[c].tx

\* C23: no connection is held by two requests at once, and no request issues
\* a statement on a handle that came with a transaction another request had
\* left open.
C23_HandleAndTransactionExclusive ==
  /\ \A r, u \in Reqs : r # u /\ req[r].conn # 0 => req[r].conn # req[u].conn
  /\ \A r \in Reqs : req[r].conn # 0 => conn[req[r].conn].owner = r
  /\ \A r \in Reqs : req[r].txAtAcquire => req[r].log = <<>>

ZeroRowImport(q) ==
  /\ IsImport(q) /\ q.file = <<>> /\ q.acquired = 1
  /\ AllOk(q) /\ ~q.txAtAcquire

\* C29: an import of a sheet with no data rows, none of whose statements
\* fails, on a handle that carried no transaction left open, issues BEGIN
\* then COMMIT and nothing else, leaves the committed tables as they were
\* when it arrived, answers 200 and releases the handle.
C29_ZeroRowImport ==
  \A r \in Reqs :
    ZeroRowImport(req[r]) =>
      /\ Len(req[r].log) <= 2
      /\ \A j \in 1..Len(req[r].log) :
           req[r].log[j].op = (IF j = 1 THEN "BEGIN" ELSE "COMMIT")
      /\ db = req[r].before
      /\ req[r].pc = "done" =>
           /\ Len(req[r].log) = 2
           /\ req[r].resp = <<200>>
           /\ req[r].released = 1 /\ req[r].conn = 0
           /\ \A c \in Conns : conn[c].owner # r

\* a zero-row import finished on a database that already held rows
C29_Witness ==
  \E r \in Reqs :
    /\ ZeroRowImport(req[r]) /\ req[r].pc = "done"
    /\ req[r].resp = <<200>> /\ Len(req[r].log) = 2
    /\ db = SeededDb

====
